---- MODULE Spec2Model ----
(***************************************************************************)
(* Model of src/index.ts: the MCP server exposing PostgreSQL schema        *)
(* metadata (ListResources, ReadResource) and a "query" tool (CallTool)    *)
(* over a pg connection pool.                                              *)
(*                                                                         *)
(* Strings are sequences of one-character strings, so that the URL         *)
(* constructor (escaping, delimiters, dot segments) and String.split work  *)
(* on characters.  JavaScript's undefined and the URL standard's null are  *)
(* the one-element sequences Undefined and Null, which no string equals.   *)
(***************************************************************************)
EXTENDS Integers, Sequences, FiniteSets, TLC

\* ------------------------------------------------------------------ bounds

\* Longest table name of the probe table in the catalog (SpecCodec).
MaxLen == 2
\* Requests the protocol client sends concurrently (Spec).
NumReqs == 2
\* Connections of the pool (pg's `max`).
PoolMax == 1
\* Statements in one caller-supplied sql string.
MaxStmts == 2
\* Rows of public.users when the server starts.
InitRows == 1

\* ------------------------------------------------------------- characters

Undefined == <<"undefined">>
Null == <<"null">>
EOF == "EOF"

\* The characters a catalog name is drawn from: a letter and the characters
\* the URL parser escapes or treats as delimiters.
Alphabet == {"a", " ", "/", "?", "#", "%", "."}

Lower == <<"a","b","c","d","e","f","g","h","i","j","k","l","m",
           "n","o","p","q","r","s","t","u","v","w","x","y","z">>

\* Byte value of a character (ORDER BY on information_schema's name columns
\* compares bytes: collation "C").
Code(c) ==
  CASE c = " " -> 32 [] c = "#" -> 35 [] c = "%" -> 37 [] c = "." -> 46
    [] c = "/" -> 47 [] c = "0" -> 48 [] c = "2" -> 50 [] c = "?" -> 63
    [] c = "P" -> 80
    [] OTHER -> 96 + (CHOOSE i \in 1..26 : Lower[i] = c)

RECURSIVE StrLess(_, _)
StrLess(s, t) ==
  IF t = <<>> THEN FALSE
  ELSE IF s = <<>> THEN TRUE
  ELSE IF Code(s[1]) # Code(t[1]) THEN Code(s[1]) < Code(t[1])
  ELSE StrLess(Tail(s), Tail(t))

\* All strings over S of length 1..n.
RECURSIVE Strings(_, _)
Strings(S, n) ==
  IF n = 0 THEN {}
  ELSE LET shorter == Strings(S, n - 1)
       IN  {<<c>> : c \in S} \cup shorter \cup {Append(s, c) : s \in shorter, c \in S}

\* ------------------------------------------------------------ names in use

public == <<"p","u","b">>
Public == <<"P","u","b">>
sales == <<"s","a","l">>
finance == <<"f","i","n">>
users == <<"u","s","r">>
orders == <<"o","r","d">>
ledger == <<"l","e","d">>
other == <<"o","t","h">>

\* const SCHEMA_PATH = "schema"
SCHEMA_PATH == <<"s","c","h","e","m","a">>

\* ------------------------------------------- the URL constructor (WHATWG)
\* A URL of the non-special scheme "postgres:".  A URL string is kept as
\* [origin, tail]: the text "postgres://" user [":" password] "@" host,
\* already split into its parts, and the characters after the host.

Failure == [ok |-> FALSE]

\* UTF-8 percent-encoding in the path, query and fragment states: of the
\* characters of Alphabet only the space is in the encode sets.
PercentEncode(c) == IF c = " " THEN <<"%", "2", "0">> ELSE <<c>>

\* Leading and trailing C0 control or space are removed from the input.
RECURSIVE Strip(_)
Strip(s) ==
  IF s = <<>> THEN s
  ELSE IF s[1] = " " THEN Strip(Tail(s))
  ELSE IF s[Len(s)] = " " THEN Strip(SubSeq(s, 1, Len(s) - 1))
  ELSE s

At(s, i) == IF i > Len(s) THEN EOF ELSE s[i]

\* "shorten a url's path": drop the last segment, if any.
Shorten(path) == IF path = <<>> THEN path ELSE SubSeq(path, 1, Len(path) - 1)

RECURSIVE FragmentState(_, _, _, _, _)
FragmentState(s, i, path, query, buf) ==
  IF At(s, i) = EOF THEN [path |-> path, query |-> query, fragment |-> buf]
  ELSE FragmentState(s, i + 1, path, query, buf \o PercentEncode(s[i]))

RECURSIVE QueryState(_, _, _, _)
QueryState(s, i, path, buf) ==
  LET c == At(s, i)
  IN  IF c = EOF THEN [path |-> path, query |-> buf, fragment |-> Null]
      ELSE IF c = "#" THEN FragmentState(s, i + 1, path, buf, <<>>)
      ELSE QueryState(s, i + 1, path, buf \o PercentEncode(c))

RECURSIVE PathState(_, _, _, _)
PathState(s, i, path, buf) ==
  LET c == At(s, i)
      p1 == IF buf = <<".", ".">>
              THEN (IF c # "/" THEN Append(Shorten(path), <<>>) ELSE Shorten(path))
            ELSE IF buf = <<".">>
              THEN (IF c # "/" THEN Append(path, <<>>) ELSE path)
            ELSE Append(path, buf)
  IN  IF c = EOF THEN [path |-> p1, query |-> Null, fragment |-> Null]
      ELSE IF c = "/" THEN PathState(s, i + 1, p1, <<>>)
      ELSE IF c = "?" THEN QueryState(s, i + 1, p1, <<>>)
      ELSE IF c = "#" THEN FragmentState(s, i + 1, p1, Null, <<>>)
      ELSE PathState(s, i + 1, path, buf \o PercentEncode(c))

\* "path start state" of a non-special scheme.
PathStartState(s, i) ==
  LET c == At(s, i)
  IN  IF c = EOF THEN [path |-> <<>>, query |-> Null, fragment |-> Null]
      ELSE IF c = "?" THEN QueryState(s, i + 1, <<>>, <<>>)
      ELSE IF c = "#" THEN FragmentState(s, i + 1, <<>>, Null, <<>>)
      ELSE IF c = "/" THEN PathState(s, i + 1, <<>>, <<>>)
      ELSE PathState(s, i, <<>>, <<>>)

MkURL(username, password, host, rest) ==
  [ok |-> TRUE, username |-> username, password |-> password, host |-> host,
   path |-> rest.path, query |-> rest.query, fragment |-> rest.fragment]

\* First index >= i of a character that ends the authority.
RECURSIVE HostEnd(_, _)
HostEnd(s, i) ==
  IF At(s, i) \in {EOF, "/", "?", "#"} THEN i ELSE HostEnd(s, i + 1)

\* new URL(input, base): the relative, relative slash and authority states.
\* ':' and '@' are not in Alphabet, so the input never carries a scheme or
\* credentials of its own.
URLRelative(input, base) ==
  LET s == Strip(input)
      c == At(s, 1)
  IN  IF c = EOF THEN base
      ELSE IF c = "/" THEN
        IF At(s, 2) = "/"
          THEN LET j == HostEnd(s, 3)
                   host == SubSeq(s, 3, j - 1)
               IN  \* a space is a forbidden host code point
                   IF \E k \in 1..Len(host) : host[k] = " " THEN Failure
                   ELSE MkURL(<<>>, <<>>, host, PathStartState(s, j))
          ELSE MkURL(base.username, base.password, base.host,
                     PathState(s, 2, <<>>, <<>>))
      ELSE IF c = "?" THEN
        MkURL(base.username, base.password, base.host,
              QueryState(s, 2, base.path, <<>>))
      ELSE IF c = "#" THEN
        MkURL(base.username, base.password, base.host,
              FragmentState(s, 2, base.path, base.query, <<>>))
      ELSE MkURL(base.username, base.password, base.host,
                 PathState(s, 1, Shorten(base.path), <<>>))

\* The URL path serializer, which is also the pathname getter.
RECURSIVE Pathname(_)
Pathname(path) ==
  IF path = <<>> THEN <<>> ELSE <<"/">> \o path[1] \o Pathname(Tail(path))

\* url.href
Href(url) ==
  [origin |-> [username |-> url.username, password |-> url.password,
               host |-> url.host],
   tail |-> Pathname(url.path)
            \o (IF url.query = Null THEN <<>> ELSE <<"?">> \o url.query)
            \o (IF url.fragment = Null THEN <<>> ELSE <<"#">> \o url.fragment)]

\* A request uri that is no absolute URL at all (for instance "users").
NotAUrl ==
  [origin |-> [username |-> <<>>, password |-> <<>>, host |-> Undefined], tail |-> <<>>]

\* new URL(uri) of an absolute "postgres://" URL string.
URLAbsolute(uri) ==
  IF uri.origin.host = Undefined THEN Failure
  ELSE MkURL(uri.origin.username, uri.origin.password, uri.origin.host,
             PathStartState(uri.tail, 1))

\* String.prototype.split("/")
RECURSIVE Split(_, _)
Split(s, cur) ==
  IF s = <<>> THEN <<cur>>
  ELSE IF s[1] = "/" THEN <<cur>> \o Split(Tail(s), <<>>)
  ELSE Split(Tail(s), Append(cur, s[1]))

\* Array.prototype.pop: the value popped (undefined when the array is empty)
\* and the array left.
PopValue(arr) == IF arr = <<>> THEN Undefined ELSE arr[Len(arr)]
PopRest(arr) == IF arr = <<>> THEN arr ELSE SubSeq(arr, 1, Len(arr) - 1)

\* `${row.table_schema}/${row.table_name}/${SCHEMA_PATH}`
RelativeRef(schema, table) == schema \o <<"/">> \o table \o <<"/">> \o SCHEMA_PATH

\* Lines 82-85: pathname.split("/") and three pops.
PathComponents(url) == Split(Pathname(url.path), <<>>)
SchemaPathOf(url) == PopValue(PathComponents(url))
TableNameOf(url) == PopValue(PopRest(PathComponents(url)))
DbSchemaOf(url) == PopValue(PopRest(PopRest(PathComponents(url))))


\* ------------------------------------------------------------------ state

VARIABLES
  databaseUrl,  \* args[0], parsed: username, password, host, path, query
  schemas,      \* the allowed schema list, args[1] split and trimmed
  catalog,      \* information_schema.tables: the set of <<schema, table>>
  rowCount,     \* committed rows of public.users, as any session sees them
  conn,         \* the pool's clients: lease, session transaction, query queue
  waiting,      \* the pool's pendingQueue: requests awaiting pool.connect()
  req,          \* each request: kind, arguments, position, client, response
  hist,         \* each request's database operations, in the order they occur
  budget,       \* requests the protocol client has yet to send
  sqlInputs,    \* the sql strings the caller may submit
  uriInputs     \* the resource URIs the caller may ask for

vars == <<databaseUrl, schemas, catalog, rowCount, conn, waiting, req, hist,
          budget, sqlInputs, uriInputs>>

Reqs == 1..NumReqs
Conns == 1..PoolMax

\* ------------------------------------------------------------- responses

Success(body) == [ok |-> TRUE, body |-> body, error |-> "none"]
Throw(msg) == [ok |-> FALSE, body |-> <<>>, error |-> msg]
NoResponse == [ok |-> FALSE, body |-> <<>>, error |-> "pending"]

InvalidUrlMsg == "TypeError: Invalid URL"
InvalidUriMsg == "Invalid resource URI"
SchemaRequiredMsg == "Schema is required"
NotAllowedMsg == "Schema is not in the allowed schemas list"
SqlRequiredMsg == "SQL query is required and must be a string"
UnknownToolMsg == "Unknown tool"
DbErrorMsg(op) == "DatabaseError: " \o op

DbOps == {"connect", "tables", "columns", "BEGIN", "SQL", "ROLLBACK"}

\* The error kinds of the specification (section 7) for the messages thrown.
ErrorKind(msg) ==
  CASE msg = InvalidUriMsg -> "InvalidResourceUri"
    [] msg = SchemaRequiredMsg -> "SchemaNotAllowed"
    [] msg = NotAllowedMsg -> "SchemaNotAllowed"
    [] msg = SqlRequiredMsg -> "InvalidArgument"
    [] msg = UnknownToolMsg -> "UnknownTool"
    [] msg = InvalidUrlMsg -> "TypeError"
    [] msg \in {DbErrorMsg(op) : op \in DbOps} -> "DatabaseError"
    [] OTHER -> "none"

\* result.rows: an array of rows, or undefined.
Rows(x) == [defined |-> TRUE, rows |-> x]
NoRows == [defined |-> FALSE, rows |-> <<>>]

\* JSON.stringify(rows, null, 2): the JSON text of the array; of undefined,
\* undefined (no text at all).
JsonStringify(v) == [defined |-> v.defined, json |-> v.rows]

\* ------------------------------------------------- configuration (26-51)

\* Mutant: the password is left in the base URL.
ResourceBaseUrlKeepsPassword(dbUrl) ==
  [ok |-> TRUE, username |-> dbUrl.username, password |-> dbUrl.password,
   host |-> dbUrl.host, path |-> dbUrl.path, query |-> dbUrl.query,
   fragment |-> Null]

\* resourceBaseUrl: the database URL with protocol "postgres:" and the
\* password set to the empty string.
ResourceBaseUrl(dbUrl) ==
  [ok |-> TRUE, username |-> dbUrl.username, password |-> <<>>,
   host |-> dbUrl.host, path |-> dbUrl.path, query |-> dbUrl.query,
   fragment |-> Null]

resourceBaseUrl == ResourceBaseUrl(databaseUrl)

\* schemas.includes(x)
Includes(list, x) == \E i \in 1..Len(list) : list[i] = x

\* ------------------------------------------------------ the catalog queries

PairLess(a, b) == StrLess(a[1], b[1]) \/ (a[1] = b[1] /\ StrLess(a[2], b[2]))

\* ORDER BY table_schema, table_name
RECURSIVE SortRows(_)
SortRows(S) ==
  IF S = {} THEN <<>>
  ELSE LET m == CHOOSE x \in S : \A y \in S \ {x} : PairLess(x, y)
       IN  <<m>> \o SortRows(S \ {m})

\* SELECT table_schema, table_name FROM information_schema.tables
\* WHERE table_schema IN ($1, ...) ORDER BY table_schema, table_name
TablesQuery(cat, params) ==
  LET rows == SortRows({p \in cat : Includes(params, p[1])})
  IN  [i \in 1..Len(rows) |-> [table_schema |-> rows[i][1], table_name |-> rows[i][2]]]

\* SELECT column_name, data_type FROM information_schema.columns
\* WHERE table_schema = $1 AND table_name = $2 (every table has one column)
ColumnsQuery(cat, params) ==
  IF <<params[1], params[2]>> \in cat
    THEN <<[column_name |-> "id", data_type |-> "integer"]>>
    ELSE <<>>

\* Lines 67-73: one descriptor per row; the URL constructor may throw.
Descriptor(row, base) ==
  [uri |-> Href(URLRelative(RelativeRef(row.table_schema, row.table_name), base)),
   mimeType |-> "application/json",
   name |-> [table |-> row.table_name, schema |-> row.table_schema]]

ListResult(rows, base) ==
  IF \E i \in 1..Len(rows) :
       ~URLRelative(RelativeRef(rows[i].table_schema, rows[i].table_name), base).ok
    THEN Throw(InvalidUrlMsg)
    ELSE Success([resources |-> [i \in 1..Len(rows) |-> Descriptor(rows[i], base)]])

\* Mutant: the allow-list test of line 95 is missing.
ReadCheckNoGuard(uri, allowed) ==
  LET resourceUrl == URLAbsolute(uri)
  IN  IF ~resourceUrl.ok THEN InvalidUrlMsg
      ELSE IF SchemaPathOf(resourceUrl) # SCHEMA_PATH THEN InvalidUriMsg
      ELSE IF DbSchemaOf(resourceUrl) \in {Undefined, <<>>} THEN SchemaRequiredMsg
      ELSE "pass"

\* Mutant: the test of line 91 for a missing schema is missing.
ReadCheckNoRequired(uri, allowed) ==
  LET resourceUrl == URLAbsolute(uri)
  IN  IF ~resourceUrl.ok THEN InvalidUrlMsg
      ELSE IF SchemaPathOf(resourceUrl) # SCHEMA_PATH THEN InvalidUriMsg
      ELSE IF ~Includes(allowed, DbSchemaOf(resourceUrl)) THEN NotAllowedMsg
      ELSE "pass"

\* Lines 80-97: what ReadResource does before pool.connect().
ReadCheck(uri, allowed) ==
  LET resourceUrl == URLAbsolute(uri)
  IN  IF ~resourceUrl.ok THEN InvalidUrlMsg
      ELSE IF SchemaPathOf(resourceUrl) # SCHEMA_PATH THEN InvalidUriMsg
      ELSE IF DbSchemaOf(resourceUrl) \in {Undefined, <<>>} THEN SchemaRequiredMsg
      ELSE IF ~Includes(allowed, DbSchemaOf(resourceUrl)) THEN NotAllowedMsg
      ELSE "pass"

ReadResult(uri, rows) ==
  Success([contents |-> <<[uri |-> uri, mimeType |-> "application/json",
                           text |-> JsonStringify(rows)]>>])

\* Lines 121-134.
ToolsResult ==
  Success([tools |-> <<[name |-> "query", description |-> "Run a read-only SQL query",
                        inputSchema |-> [type |-> "object",
                                         properties |-> [sql |-> [type |-> "string"]]]]>>])


\* ------------------------------------------------------ the database engine
\* A sql string is a sequence of statements: client.query(sql) without values
\* goes over the simple query protocol, which runs every statement of the
\* string in order and stops at the first error.

Stmts == {"SELECT", "DELETE", "COMMIT"}
SqlStrings == Strings(Stmts, MaxStmts)

\* One statement in session state st = [txn, rows, implicit, out, error,
\* commit]: txn is the transaction block ("idle": none, "ro": read only,
\* "aborted"), implicit says that the string's implicit transaction has
\* deleted the rows of public.users, out is the statement's result rows.
StmtError(st) ==
  [st EXCEPT !.error = TRUE, !.implicit = FALSE,
             !.txn = IF st.txn = "idle" THEN "idle" ELSE "aborted"]

ExecStmt(stmt, st) ==
  CASE stmt = "SELECT" ->
         IF st.txn = "aborted" THEN StmtError(st)
         ELSE [st EXCEPT !.out = <<IF st.implicit THEN 0 ELSE st.rows>>]
    [] stmt = "DELETE" ->
         \* a write is rejected in a read-only or aborted transaction
         IF st.txn # "idle" THEN StmtError(st)
         ELSE [st EXCEPT !.implicit = TRUE, !.out = <<>>]
    [] stmt = "COMMIT" ->
         [st EXCEPT !.txn = "idle", !.out = <<>>, !.implicit = FALSE,
                    !.rows = IF st.implicit THEN 0 ELSE st.rows,
                    !.commit = st.commit \/ st.txn = "ro" \/ st.implicit]

RECURSIVE RunStmts(_, _)
RunStmts(stmts, st) ==
  IF st.error THEN st
  ELSE IF stmts = <<>>
    \* the end of the string commits its implicit transaction
    THEN [st EXCEPT !.rows = IF st.implicit THEN 0 ELSE st.rows,
                    !.commit = st.commit \/ st.implicit, !.implicit = FALSE]
  ELSE RunStmts(Tail(stmts), ExecStmt(stmts[1], st))

ExecSql(stmts, txn, rows) ==
  RunStmts(stmts, [txn |-> txn, rows |-> rows, implicit |-> FALSE, out |-> <<>>,
                   error |-> FALSE, commit |-> FALSE])

\* result.rows: pg resolves a string of several statements with an array
\* of results, which has no rows property.
ResultRows(stmts, st) == IF Len(stmts) = 1 THEN Rows(st.out) ELSE NoRows

\* Lines 150-153.
CallResult(rows) ==
  Success([content |-> <<[type |-> "text", text |-> JsonStringify(rows)]>>,
           isError |-> FALSE])

\* ------------------------------------------------------------- the pool

FreshConn == [state |-> "closed", owner |-> 0, txn |-> "idle", queue |-> <<>>,
              broken |-> FALSE]

\* Mutant: the client is never given back.
ReleasedNever(cn) == cn

\* client.release(): back to the idle list; the pool removes a client that
\* is not queryable any more.
Released(cn) ==
  IF cn.broken THEN FreshConn ELSE [cn EXCEPT !.state = "idle", !.owner = 0]

\* A connection error: the session is gone and with it its transaction.
Broken(cn) == [cn EXCEPT !.broken = TRUE, !.txn = "idle"]

Entry(r, op, arg) == [req |-> r, op |-> op, arg |-> arg]
Event(ev, op, arg) == [ev |-> ev, op |-> op, arg |-> arg]

NoRequest == [kind |-> "none", arg |-> <<>>, pc |-> "idle", client |-> 0,
              resp |-> NoResponse]

\* The slot of the request the protocol client sends next: the lowest unused.
NextReq == CHOOSE r \in Reqs : req[r].pc = "idle" /\ \A q \in Reqs : q < r => req[q].pc # "idle"

Head1(c) == conn[c].queue[1]
Awaited(c, op) ==
  /\ conn[c].queue # <<>>
  /\ Head1(c).op = op


\* ------------------------------------------------------------- the inputs

Background == {<<public, users>>, <<sales, orders>>, <<finance, ledger>>}

\* Schemas of the probe table: an ordinary one and the one-character names.
ProbeSchemas == {public} \cup Strings(Alphabet, 1)
ProbeTables == Strings(Alphabet, MaxLen)

BaseOrigin == Href(resourceBaseUrl).origin
Uri(tail) == [origin |-> BaseOrigin, tail |-> tail]
Slash(a, b) == a \o <<"/">> \o b

\* Hand-crafted resource URIs.
HandCrafted ==
  { Uri(<<"/">> \o Slash(public, Slash(users, SCHEMA_PATH))),
    Uri(<<"/">> \o Slash(Public, Slash(users, SCHEMA_PATH))),
    Uri(<<"/">> \o Slash(finance, Slash(ledger, SCHEMA_PATH))),
    Uri(<<"/">> \o Slash(public, Slash(users, other))),
    Uri(<<"/">> \o Slash(public, SCHEMA_PATH)),
    Uri(<<"/">> \o Slash(<<>>, Slash(users, SCHEMA_PATH))),
    Uri(<<"/">> \o SCHEMA_PATH),
    Uri(<<"/">> \o other),
    Uri(<<>>),
    NotAUrl }

\* The URIs ListResources hands out for the catalog.
Listed ==
  LET res == ListResult(TablesQuery(catalog, schemas), resourceBaseUrl)
  IN  IF res.ok THEN {res.body.resources[i].uri : i \in 1..Len(res.body.resources)}
      ELSE {}

ReadUris == HandCrafted \cup Listed

\* One URI per outcome of the checks: read, schema refused, marker refused,
\* schema missing, no URL.
ConcurrentUris ==
  { Uri(<<"/">> \o Slash(public, Slash(users, SCHEMA_PATH))),
    Uri(<<"/">> \o Slash(finance, Slash(ledger, SCHEMA_PATH))),
    Uri(<<"/">> \o Slash(public, Slash(users, other))),
    Uri(<<"/">> \o Slash(public, SCHEMA_PATH)),
    NotAUrl }

SqlUndefined == [type |-> "undefined", text |-> <<>>]
SqlNumber == [type |-> "number", text |-> <<>>]
SqlString(q) == [type |-> "string", text |-> q]

NoArguments == [present |-> FALSE, sql |-> SqlUndefined]
Arguments ==
  {NoArguments, [present |-> TRUE, sql |-> SqlUndefined], [present |-> TRUE, sql |-> SqlNumber]}
  \cup {[present |-> TRUE, sql |-> SqlString(q)] : q \in sqlInputs}

CallInputs ==
  {[name |-> "query", arguments |-> a] : a \in Arguments}
  \cup {[name |-> "other", arguments |-> a] :
          a \in {NoArguments, [present |-> TRUE, sql |-> SqlString(<<"SELECT">>)]}}

\* ------------------------------------------------------------------- Init

InitCommon ==
  /\ databaseUrl = [username |-> <<"u">>, password |-> <<"p", "w">>, host |-> <<"h">>,
                    path |-> << <<"d", "b">> >>, query |-> Null]
  /\ rowCount = InitRows
  /\ conn = [c \in Conns |-> FreshConn]
  /\ waiting = <<>>
  /\ req = [r \in Reqs |-> NoRequest]
  /\ hist = [r \in Reqs |-> <<>>]

\* Concurrent requests over the catalog of the specification's scenarios.
Init ==
  /\ InitCommon
  /\ budget = NumReqs
  /\ schemas = <<public, sales>>
  /\ catalog = Background
  /\ sqlInputs = Strings(Stmts, 1)
  /\ uriInputs = ConcurrentUris

\* One request at a time: a probe table of any name in an allowed schema, or
\* an allowed list with an empty entry ("public,"), or any sql string.
InitSeq ==
  /\ InitCommon
  /\ budget = 1
  /\ \/ /\ \E ps \in ProbeSchemas, pt \in ProbeTables :
             /\ catalog = Background \cup {<<ps, pt>>}
             /\ schemas = <<public, ps>>
          /\ sqlInputs = {<<"SELECT">>}
     \/ /\ catalog = Background
        /\ schemas \in {<<public>>, <<public, <<>>, sales>>}
        /\ sqlInputs = {<<"SELECT">>}
     \/ /\ catalog = Background
        /\ schemas = <<public, sales>>
        /\ sqlInputs = SqlStrings
  /\ uriInputs = ReadUris


\* ---------------------------------------------------------------- actions

Config == <<databaseUrl, schemas, catalog, sqlInputs, uriInputs>>

Arrive(r, kind, arg) ==
  [kind |-> kind, arg |-> arg, pc |-> "connect", client |-> 0, resp |-> NoResponse]
Done(r, kind, arg, resp) ==
  [kind |-> kind, arg |-> arg, pc |-> "done", client |-> 0, resp |-> resp]

\* Line 54: the handler starts with pool.connect().
ListResources ==
  /\ budget > 0
  /\ req' = [req EXCEPT ![NextReq] = Arrive(NextReq, "list", <<>>)]
  /\ waiting' = Append(waiting, NextReq)
  /\ budget' = budget - 1
  /\ UNCHANGED <<Config, rowCount, conn, hist>>

\* Lines 80-99: parse, the three checks, then pool.connect().
ReadResource(uri) ==
  /\ budget > 0
  /\ LET check == ReadCheck(uri, schemas)
         arg == [uri |-> uri,
                 dbSchema |-> DbSchemaOf(URLAbsolute(uri)),
                 tableName |-> TableNameOf(URLAbsolute(uri))]
     IN  IF check = "pass"
           THEN /\ req' = [req EXCEPT ![NextReq] = Arrive(NextReq, "read", arg)]
                /\ waiting' = Append(waiting, NextReq)
           ELSE /\ req' = [req EXCEPT ![NextReq] =
                             Done(NextReq, "read", [uri |-> uri], Throw(check))]
                /\ waiting' = waiting
  /\ budget' = budget - 1
  /\ UNCHANGED <<Config, rowCount, conn, hist>>

\* Lines 120-135.
ListTools ==
  /\ budget > 0
  /\ req' = [req EXCEPT ![NextReq] = Done(NextReq, "tools", <<>>, ToolsResult)]
  /\ budget' = budget - 1
  /\ UNCHANGED <<Config, rowCount, conn, waiting, hist>>

\* Mutant: the tool name is not looked at.
CallToolAnyName(in) ==
  /\ budget > 0
  /\ IF ~in.arguments.present \/ in.arguments.sql.type # "string"
       THEN /\ req' = [req EXCEPT ![NextReq] =
                         Done(NextReq, "call", in, Throw(SqlRequiredMsg))]
            /\ waiting' = waiting
       ELSE /\ req' = [req EXCEPT ![NextReq] = Arrive(NextReq, "call", in)]
            /\ waiting' = Append(waiting, NextReq)
  /\ budget' = budget - 1
  /\ UNCHANGED <<Config, rowCount, conn, hist>>

\* Mutant: the connection is asked for before the sql argument is looked at.
CallToolConnectsFirst(in) ==
  /\ budget > 0
  /\ IF in.name = "query"
       THEN /\ req' = [req EXCEPT ![NextReq] = Arrive(NextReq, "call", in)]
            /\ waiting' = Append(waiting, NextReq)
       ELSE /\ req' = [req EXCEPT ![NextReq] =
                         Done(NextReq, "call", in, Throw(UnknownToolMsg))]
            /\ waiting' = waiting
  /\ budget' = budget - 1
  /\ UNCHANGED <<Config, rowCount, conn, hist>>

\* Lines 137-146 and 166: the tool name, the sql argument, then pool.connect().
CallTool(in) ==
  /\ budget > 0
  /\ IF in.name = "query"
       THEN IF ~in.arguments.present \/ in.arguments.sql.type # "string"
              THEN /\ req' = [req EXCEPT ![NextReq] =
                                Done(NextReq, "call", in, Throw(SqlRequiredMsg))]
                   /\ waiting' = waiting
              ELSE /\ req' = [req EXCEPT ![NextReq] = Arrive(NextReq, "call", in)]
                   /\ waiting' = Append(waiting, NextReq)
       ELSE /\ req' = [req EXCEPT ![NextReq] =
                         Done(NextReq, "call", in, Throw(UnknownToolMsg))]
            /\ waiting' = waiting
  /\ budget' = budget - 1
  /\ UNCHANGED <<Config, rowCount, conn, hist>>

\* Mutant: the pool only hands out new connections, never an idle client.
AvailableNeverReused(c) ==
  conn[c].state = "closed" /\ \A d \in Conns : conn[d].state # "idle"

\* A client the pool can hand out: an idle one, or a new connection when
\* none is idle.
Available(c) ==
  \/ conn[c].state = "idle"
  \/ conn[c].state = "closed" /\ \A d \in Conns : conn[d].state # "idle"

\* The first statement of a handler after pool.connect() (lines 65, 101, 148).
FirstEntry(r) ==
  CASE req[r].kind = "list" -> Entry(r, "tables", schemas)
    [] req[r].kind = "read" -> Entry(r, "columns", <<req[r].arg.dbSchema, req[r].arg.tableName>>)
    [] req[r].kind = "call" -> Entry(r, "BEGIN", <<>>)

\* pool.connect() resolves for the longest-waiting request.
ConnectOk(c) ==
  /\ waiting # <<>>
  /\ Available(c)
  /\ LET r == Head(waiting)
         e == FirstEntry(r)
     IN  /\ conn' = [conn EXCEPT ![c] = [@ EXCEPT !.state = "leased", !.owner = r,
                                                  !.queue = Append(@, e)]]
         /\ req' = [req EXCEPT ![r] = [@ EXCEPT !.pc = "await", !.client = c]]
         /\ hist' = [hist EXCEPT ![r] = @ \o <<Event("ok", "connect", c),
                                               Event("issue", e.op, e.arg)>>]
  /\ waiting' = Tail(waiting)
  /\ UNCHANGED <<Config, rowCount, budget>>

\* pool.connect() rejects: the new connection could not be established.
ConnectFail(c) ==
  /\ waiting # <<>>
  /\ conn[c].state = "closed"
  /\ \A d \in Conns : conn[d].state # "idle"
  /\ LET r == Head(waiting)
     IN  /\ req' = [req EXCEPT ![r] = [@ EXCEPT !.pc = "done",
                                            !.resp = Throw(DbErrorMsg("connect"))]]
         /\ hist' = [hist EXCEPT ![r] = @ \o <<Event("fail", "connect", c)>>]
  /\ waiting' = Tail(waiting)
  /\ UNCHANGED <<Config, rowCount, conn, budget>>

Dequeued(c) == [conn[c] EXCEPT !.queue = Tail(@)]

\* The finally block of ListResources and ReadResource (lines 74-76, 115-117):
\* the response is `resp`, the client is released.
FinishCatalog(c, r, cn, resp, events) ==
  /\ conn' = [conn EXCEPT ![c] = Released(cn)]
  /\ req' = [req EXCEPT ![r] = [@ EXCEPT !.pc = "done", !.resp = resp]]
  /\ hist' = [hist EXCEPT ![r] = @ \o events \o <<Event("release", "-", c)>>]
  /\ UNCHANGED <<Config, rowCount, waiting, budget>>

TablesOk(c) ==
  /\ Awaited(c, "tables")
  /\ ~conn[c].broken
  /\ FinishCatalog(c, Head1(c).req, Dequeued(c),
                   ListResult(TablesQuery(catalog, Head1(c).arg), resourceBaseUrl),
                   <<Event("ok", "tables", <<>>)>>)

\* Mutant: a failed catalog query is answered with an empty listing.
TablesFailEmpty(c) ==
  /\ Awaited(c, "tables")
  /\ FinishCatalog(c, Head1(c).req, Broken(Dequeued(c)),
                   Success([resources |-> <<>>]), <<Event("fail", "tables", <<>>)>>)

TablesFail(c) ==
  /\ Awaited(c, "tables")
  /\ FinishCatalog(c, Head1(c).req, Broken(Dequeued(c)),
                   Throw(DbErrorMsg("tables")), <<Event("fail", "tables", <<>>)>>)

ColumnsOk(c) ==
  /\ Awaited(c, "columns")
  /\ ~conn[c].broken
  /\ FinishCatalog(c, Head1(c).req, Dequeued(c),
                   ReadResult(req[Head1(c).req].arg.uri,
                              Rows(ColumnsQuery(catalog, Head1(c).arg))),
                   <<Event("ok", "columns", <<>>)>>)

ColumnsFail(c) ==
  /\ Awaited(c, "columns")
  /\ FinishCatalog(c, Head1(c).req, Broken(Dequeued(c)),
                   Throw(DbErrorMsg("columns")), <<Event("fail", "columns", <<>>)>>)

\* Mutant: the ROLLBACK never reaches the client's queue.
RollbackNotQueued(cn, r) == cn

\* The finally block of the "query" tool (lines 156-164): client.query(
\* "ROLLBACK") is issued and not awaited, then client.release().  A client
\* that is not queryable rejects the ROLLBACK without sending it.
RollbackIssued(cn, r) ==
  IF cn.broken THEN cn
  ELSE [cn EXCEPT !.queue = Append(@, Entry(r, "ROLLBACK", <<>>))]

FinallyEvents(cn, c) ==
  <<Event("issue", "ROLLBACK", <<>>), Event("release", "-", c)>>
  \o (IF cn.broken THEN <<Event("fail", "ROLLBACK", <<>>), Event("warn", "ROLLBACK", <<>>)>>
      ELSE <<>>)

FinishCall(c, r, cn, resp, events) ==
  /\ conn' = [conn EXCEPT ![c] = Released(RollbackIssued(cn, r))]
  /\ req' = [req EXCEPT ![r] = [@ EXCEPT !.pc = "done", !.resp = resp]]
  /\ hist' = [hist EXCEPT ![r] = @ \o events \o FinallyEvents(cn, c)]
  /\ UNCHANGED <<Config, waiting, budget>>

\* Line 148 resolves; line 149 issues the caller's sql.
BeginOk(c) ==
  /\ Awaited(c, "BEGIN")
  /\ ~conn[c].broken
  /\ LET r == Head1(c).req
         cn == Dequeued(c)
     IN  IF cn.txn = "aborted"
           THEN /\ FinishCall(c, r, cn, Throw(DbErrorMsg("BEGIN")),
                              <<Event("fail", "BEGIN", <<>>)>>)
                /\ rowCount' = rowCount
           ELSE /\ conn' = [conn EXCEPT ![c] =
                              [cn EXCEPT !.txn = "ro",
                                         !.queue = Append(@, Entry(r, "SQL",
                                                     req[r].arg.arguments.sql.text))]]
                /\ hist' = [hist EXCEPT ![r] = @ \o
                              <<Event("ok", "BEGIN", <<>>),
                                Event("issue", "SQL", req[r].arg.arguments.sql.text)>>]
                /\ UNCHANGED <<Config, rowCount, waiting, req, budget>>

\* Mutant: after a failed BEGIN the client is released without a ROLLBACK.
BeginFailNoRollback(c) ==
  /\ Awaited(c, "BEGIN")
  /\ FinishCatalog(c, Head1(c).req, Broken(Dequeued(c)), Throw(DbErrorMsg("BEGIN")),
                   <<Event("fail", "BEGIN", <<>>)>>)

\* Line 148 rejects: catch rethrows, finally issues ROLLBACK and releases.
BeginFail(c) ==
  /\ Awaited(c, "BEGIN")
  /\ FinishCall(c, Head1(c).req, Broken(Dequeued(c)), Throw(DbErrorMsg("BEGIN")),
                <<Event("fail", "BEGIN", <<>>)>>)
  /\ rowCount' = rowCount

\* Line 149 settles: the engine ran the string, to its end or to an error.
SqlDone(c) ==
  /\ Awaited(c, "SQL")
  /\ ~conn[c].broken
  /\ LET r == Head1(c).req
         sql == Head1(c).arg
         st == ExecSql(sql, conn[c].txn, rowCount)
         cn == [Dequeued(c) EXCEPT !.txn = st.txn]
     IN  /\ rowCount' = st.rows
         /\ FinishCall(c, r, cn,
                       IF st.error THEN Throw(DbErrorMsg("SQL"))
                       ELSE CallResult(ResultRows(sql, st)),
                       <<Event(IF st.error THEN "fail" ELSE "ok", "SQL",
                               [commit |-> st.commit])>>)

SqlFail(c) ==
  /\ Awaited(c, "SQL")
  /\ FinishCall(c, Head1(c).req, Broken(Dequeued(c)), Throw(DbErrorMsg("SQL")),
                <<Event("fail", "SQL", [commit |-> FALSE])>>)
  /\ rowCount' = rowCount

\* The ROLLBACK of line 158 settles, after the handler has returned.
RollbackOk(c) ==
  /\ Awaited(c, "ROLLBACK")
  /\ ~conn[c].broken
  /\ conn' = [conn EXCEPT ![c] = [Dequeued(c) EXCEPT !.txn = "idle"]]
  /\ hist' = [hist EXCEPT ![Head1(c).req] = @ \o <<Event("ok", "ROLLBACK", <<>>)>>]
  /\ UNCHANGED <<Config, rowCount, waiting, req, budget>>

\* Mutant: the rollback error replaces the response.
RollbackFailMasks(c) ==
  /\ Awaited(c, "ROLLBACK")
  /\ conn' = [conn EXCEPT ![c] = IF conn[c].state = "idle" THEN FreshConn
                                 ELSE Broken(Dequeued(c))]
  /\ req' = [req EXCEPT ![Head1(c).req] = [@ EXCEPT !.resp = Throw(DbErrorMsg("ROLLBACK"))]]
  /\ hist' = [hist EXCEPT ![Head1(c).req] = @ \o <<Event("fail", "ROLLBACK", <<>>),
                                                   Event("warn", "ROLLBACK", <<>>)>>]
  /\ UNCHANGED <<Config, rowCount, waiting, budget>>

\* Lines 159-161: the rejection is caught and logged with console.warn.  The
\* pool drops an idle client whose connection failed.
RollbackFail(c) ==
  /\ Awaited(c, "ROLLBACK")
  /\ conn' = [conn EXCEPT ![c] = IF conn[c].state = "idle" THEN FreshConn
                                 ELSE Broken(Dequeued(c))]
  /\ hist' = [hist EXCEPT ![Head1(c).req] = @ \o <<Event("fail", "ROLLBACK", <<>>),
                                                   Event("warn", "ROLLBACK", <<>>)>>]
  /\ UNCHANGED <<Config, rowCount, waiting, req, budget>>

Next ==
  \/ ListResources
  \/ \E uri \in uriInputs : ReadResource(uri)
  \/ ListTools
  \/ \E in \in CallInputs : CallTool(in)
  \/ \E c \in Conns : ConnectOk(c)
  \/ \E c \in Conns : ConnectFail(c)
  \/ \E c \in Conns : TablesOk(c)
  \/ \E c \in Conns : TablesFail(c)
  \/ \E c \in Conns : ColumnsOk(c)
  \/ \E c \in Conns : ColumnsFail(c)
  \/ \E c \in Conns : BeginOk(c)
  \/ \E c \in Conns : BeginFail(c)
  \/ \E c \in Conns : SqlDone(c)
  \/ \E c \in Conns : SqlFail(c)
  \/ \E c \in Conns : RollbackOk(c)
  \/ \E c \in Conns : RollbackFail(c)

Spec == Init /\ [][Next]_vars
SpecSeq == InitSeq /\ [][Next]_vars

\* Every database operation eventually completes: a pending pool.connect()
\* and the query at the head of a client's queue settle, with success or
\* with a failure.  Nothing obliges the protocol client to send a request.
\* One weak-fairness condition on the disjunction is enough (and assumes
\* least): every such step uses up a pending operation, and the requests are
\* finitely many.
Settle ==
  \E c \in Conns :
    \/ ConnectFail(c) \/ ConnectOk(c)
    \/ TablesFail(c) \/ TablesOk(c)
    \/ ColumnsFail(c) \/ ColumnsOk(c)
    \/ BeginFail(c) \/ BeginOk(c)
    \/ SqlFail(c) \/ SqlDone(c)
    \/ RollbackFail(c) \/ RollbackOk(c)

Completes == WF_vars(Settle)

SpecLive == Init /\ [][Next]_vars /\ Completes


\* ----------------------------------------------------------------- claims

Has(r, ev, op) == \E i \in 1..Len(hist[r]) : hist[r][i].ev = ev /\ hist[r][i].op = op
Count(r, ev) == Cardinality({i \in 1..Len(hist[r]) : hist[r][i].ev = ev})
IsDone(r, kind) == req[r].kind = kind /\ req[r].pc = "done"
Kind(r) == ErrorKind(req[r].resp.error)

EndsWith(s, suffix) ==
  /\ Len(s) >= Len(suffix)
  /\ SubSeq(s, Len(s) - Len(suffix) + 1, Len(s)) = suffix

Passwords == {<<"p", "w">>, <<"x">>, <<>>}

\* C1: a "query" call never commits: whatever the sql string and the outcome
\* of the call, no COMMIT takes effect on its connection, so that the row
\* count of public.users, observed from outside, is what it was before the
\* call.
C1_NeverCommits == rowCount = InitRows

\* C2: a ReadResource request that reaches the allow-list guard passes it if
\* and only if the schema segment parsed from its URI is a non-empty string
\* and an exact, case-sensitive member of the allowed list, otherwise it fails
\* with SchemaNotAllowed; and no information_schema.columns query is issued
\* with a schema parameter outside the allowed list.
C2_GuardIffMember ==
  \A r \in Reqs :
    req[r].kind = "read" =>
      LET url == URLAbsolute(req[r].arg.uri)
          s == DbSchemaOf(url)
          member == s # Undefined /\ s # <<>> /\ \E i \in 1..Len(schemas) : schemas[i] = s
          rejected == req[r].pc = "done" /\ Kind(r) = "SchemaNotAllowed"
      IN  /\ url.ok /\ SchemaPathOf(url) = SCHEMA_PATH => (member <=> ~rejected)
          /\ \A i \in 1..Len(hist[r]) :
               hist[r][i].ev = "issue" /\ hist[r][i].op = "columns" =>
                 /\ hist[r][i].arg[1] # <<>>
                 /\ \E k \in 1..Len(schemas) : schemas[k] = hist[r][i].arg[1]

\* C2 witness: the hand-crafted URI of a schema that differs from an allowed
\* one in case only was rejected by the guard.
C2_Witness ==
  \E r \in Reqs :
    /\ IsDone(r, "read")
    /\ req[r].arg.uri = Uri(<<"/">> \o Slash(Public, Slash(users, SCHEMA_PATH)))
    /\ req[r].resp.error = NotAllowedMsg

\* C3: every request that acquired a pooled connection releases it exactly
\* once, on every path; it never releases twice, and once it has answered it
\* holds no connection.
C3_ReleasedOnce ==
  \A r \in Reqs :
    /\ Count(r, "release") <= 1
    /\ ~Has(r, "ok", "connect") => Count(r, "release") = 0
    /\ req[r].pc = "done" /\ Has(r, "ok", "connect") => Count(r, "release") = 1
    /\ req[r].pc = "done" => \A c \in Conns : conn[c].owner # r
    /\ \A c \in Conns : conn[c].state = "leased" <=> conn[c].owner # 0

\* C3 witness: a "query" call whose ROLLBACK failed has released its client.
C3_Witness ==
  \E r \in Reqs :
    /\ IsDone(r, "call")
    /\ Has(r, "ok", "SQL")
    /\ Has(r, "fail", "ROLLBACK")
    /\ Count(r, "release") = 1

\* C4: a ROLLBACK failure never changes what a "query" call returns: after a
\* successful statement the caller has its rows with isError false, after a
\* failed BEGIN or statement it has that error, never the rollback's; the
\* rollback failure is logged as a warning.
C4_RollbackFailureSilent ==
  \A r \in Reqs :
    IsDone(r, "call") /\ Has(r, "ok", "connect") =>
      /\ Has(r, "ok", "SQL") => req[r].resp.ok /\ ~req[r].resp.body.isError
      /\ Has(r, "fail", "BEGIN") => req[r].resp = Throw(DbErrorMsg("BEGIN"))
      /\ Has(r, "fail", "SQL") => req[r].resp = Throw(DbErrorMsg("SQL"))
      /\ req[r].resp.error # DbErrorMsg("ROLLBACK")
      /\ Has(r, "fail", "ROLLBACK") => Has(r, "warn", "ROLLBACK")

\* C4 witness: the statement succeeded, the ROLLBACK failed, the caller has
\* the rows.
C4_Witness ==
  \E r \in Reqs :
    /\ IsDone(r, "call")
    /\ Has(r, "ok", "SQL")
    /\ Has(r, "fail", "ROLLBACK")
    /\ req[r].resp.ok

\* C5: URI round trip: parsing a URI that ListResources built, as ReadResource
\* does, recovers the schema and the table it was built for.
C5_RoundTrip ==
  \A r \in Reqs :
    IsDone(r, "list") /\ req[r].resp.ok =>
      \A i \in 1..Len(req[r].resp.body.resources) :
        LET d == req[r].resp.body.resources[i]
            url == URLAbsolute(d.uri)
        IN  /\ SchemaPathOf(url) = SCHEMA_PATH
            /\ DbSchemaOf(url) = d.name.schema
            /\ TableNameOf(url) = d.name.table

\* C6 (as claimed): ReadResource fails with InvalidResourceUri for every URI
\* whose last path segment is not the marker and for every URI whose path has
\* fewer than three segments.
C6_InvalidUriAsClaimed ==
  \A r \in Reqs :
    req[r].kind = "read" /\ URLAbsolute(req[r].arg.uri).ok =>
      LET url == URLAbsolute(req[r].arg.uri)
      IN  SchemaPathOf(url) # SCHEMA_PATH \/ Len(url.path) < 3 =>
            req[r].pc = "done" /\ Kind(r) = "InvalidResourceUri"

\* C6 (amended): a URI whose last path segment is not the marker fails with
\* InvalidResourceUri; a URI that ends in the marker and has fewer than three
\* path segments fails with "Schema is required"; neither is ever answered
\* with success.
C6_InvalidUri ==
  \A r \in Reqs :
    req[r].kind = "read" /\ URLAbsolute(req[r].arg.uri).ok =>
      LET url == URLAbsolute(req[r].arg.uri)
      IN  /\ SchemaPathOf(url) # SCHEMA_PATH =>
               req[r].pc = "done" /\ req[r].resp = Throw(InvalidUriMsg)
          /\ SchemaPathOf(url) = SCHEMA_PATH /\ Len(url.path) < 3 =>
               req[r].pc = "done" /\ req[r].resp = Throw(SchemaRequiredMsg)

\* C6 witness: ".../public/schema" was answered with "Schema is required".
C6_Witness ==
  \E r \in Reqs :
    /\ IsDone(r, "read")
    /\ req[r].arg.uri = Uri(<<"/">> \o Slash(public, SCHEMA_PATH))
    /\ req[r].resp.error = SchemaRequiredMsg

\* C7: when pool.connect() or an awaited statement (catalog query, BEGIN, the
\* caller's sql) fails, the request is answered with an error, never with a
\* success payload.
C7_FailureIsError ==
  \A r \in Reqs :
    (\E op \in {"connect", "tables", "columns", "BEGIN", "SQL"} : Has(r, "fail", op)) =>
      /\ req[r].pc = "done"
      /\ ~req[r].resp.ok
      /\ Kind(r) = "DatabaseError"

\* C7 witness: the catalog query of a ListResources request failed.
C7_Witness ==
  \E r \in Reqs :
    /\ IsDone(r, "list")
    /\ Has(r, "fail", "tables")
    /\ ~req[r].resp.ok

\* C8: no URI of a ListResources response carries the password of the
\* connection string, and the response is the same for every password.
C8_NoPassword ==
  \A r \in Reqs :
    IsDone(r, "list") /\ Has(r, "ok", "tables") =>
      /\ req[r].resp.ok =>
           \A i \in 1..Len(req[r].resp.body.resources) :
             req[r].resp.body.resources[i].uri.origin.password = <<>>
      /\ \A pw \in Passwords :
           req[r].resp = ListResult(TablesQuery(catalog, schemas),
                           ResourceBaseUrl([databaseUrl EXCEPT !.password = pw]))

\* C8 witness: a listing with at least one URI, under a non-empty password.
C8_Witness ==
  \E r \in Reqs :
    /\ IsDone(r, "list")
    /\ req[r].resp.ok
    /\ Len(req[r].resp.body.resources) > 0
    /\ databaseUrl.password # <<>>

\* C9: ListResources returns exactly one descriptor for every catalog table
\* of an allowed schema and none for any other table, in ascending (schema,
\* table) order, each with mimeType application/json and a URI that ends in
\* /<schema>/<table>/schema.
C9_Listing ==
  \A r \in Reqs :
    IsDone(r, "list") /\ Has(r, "ok", "tables") =>
      /\ req[r].resp.ok
      /\ LET res == req[r].resp.body.resources
             allowed == {p \in catalog : \E k \in 1..Len(schemas) : schemas[k] = p[1]}
         IN  /\ Len(res) = Cardinality(allowed)
             /\ {<<res[i].name.schema, res[i].name.table>> : i \in 1..Len(res)} = allowed
             /\ \A i \in 1..Len(res) : \A j \in 1..Len(res) :
                  i < j => PairLess(<<res[i].name.schema, res[i].name.table>>,
                                    <<res[j].name.schema, res[j].name.table>>)
             /\ \A i \in 1..Len(res) :
                  /\ res[i].mimeType = "application/json"
                  /\ EndsWith(res[i].uri.tail,
                              <<"/">> \o Slash(res[i].name.schema,
                                               Slash(res[i].name.table, SCHEMA_PATH)))

Settled == {"ok", "fail"}
After(r, evs1, op1, ev2, op2) ==
  \A i \in 1..Len(hist[r]) :
    hist[r][i].ev = ev2 /\ hist[r][i].op = op2 =>
      \E j \in 1..(i - 1) : hist[r][j].ev \in evs1 /\ hist[r][j].op = op1

\* C11: in every "query" call the operations on its connection are strictly
\* ordered acquire, BEGIN READ ONLY, execute, ROLLBACK, release, each one
\* starting only after the one before it has completed; in particular the
\* client is released only after the ROLLBACK has completed, with success or
\* with a failure.
C11_StrictOrder ==
  \A r \in Reqs :
    req[r].kind = "call" =>
      /\ After(r, {"ok"}, "connect", "issue", "BEGIN")
      /\ After(r, {"ok"}, "BEGIN", "issue", "SQL")
      /\ After(r, Settled, "BEGIN", "issue", "ROLLBACK")
      /\ Has(r, "issue", "SQL") => After(r, Settled, "SQL", "issue", "ROLLBACK")
      /\ After(r, Settled, "ROLLBACK", "release", "-")

\* C12: the read-only transaction of a "query" call is private to the call:
\* under every interleaving and every outcome of the database operations, the
\* first statement of a request that was handed a connection runs with no
\* transaction of an earlier lessee open, and while a transaction is open on
\* a connection the only statements that run on it are the sql and the
\* ROLLBACK of the call that began it.
C12_PrivateTransaction ==
  \A c \in Conns :
    conn[c].queue # <<>> =>
      /\ Head1(c).op \in {"tables", "columns", "BEGIN"} => conn[c].txn = "idle"
      /\ conn[c].txn # "idle" =>
           /\ Head1(c).op \in {"SQL", "ROLLBACK"}
           /\ Has(Head1(c).req, "ok", "BEGIN")
           /\ \A ev \in Settled : ~Has(Head1(c).req, ev, "ROLLBACK")

\* C12 witness: the pool has handed a connection to a request while the
\* transaction of the call that released it is still open: that call's
\* ROLLBACK is ahead of the new lessee's first statement in the queue.
C12_Witness ==
  \E c \in Conns :
    /\ conn[c].txn # "idle"
    /\ conn[c].state = "leased"
    /\ Len(conn[c].queue) = 2
    /\ conn[c].queue[1].op = "ROLLBACK"
    /\ conn[c].queue[1].req # conn[c].owner
    /\ conn[c].queue[2].req = conn[c].owner

\* The sql strings of which some statement runs outside the read-only
\* transaction the string started in.
LeavesTransaction(sql) ==
  \E k \in 1..Len(sql) :
    LET st == ExecSql(SubSeq(sql, 1, k - 1), "ro", InitRows)
    IN  ~st.error /\ st.txn # "ro"

\* C13: the caller's sql is sent only after BEGIN TRANSACTION READ ONLY has
\* succeeded on the same connection in the same call; when acquiring the
\* connection or the BEGIN failed it is never sent; so no statement of the
\* caller runs outside a read-only transaction begun by the call.
C13_SqlInsideReadOnly ==
  \A r \in Reqs :
    req[r].kind = "call" =>
      /\ After(r, {"ok"}, "connect", "issue", "SQL")
      /\ After(r, {"ok"}, "BEGIN", "issue", "SQL")
      /\ Has(r, "fail", "connect") \/ Has(r, "fail", "BEGIN") => ~Has(r, "issue", "SQL")
      /\ \A c \in Conns :
           Awaited(c, "SQL") /\ Head1(c).req = r /\ ~conn[c].broken => conn[c].txn = "ro"
      /\ Has(r, "ok", "SQL") => ~LeavesTransaction(req[r].arg.arguments.sql.text)

\* Number of events (ev, op) of request r.
Times(r, ev, op) ==
  Cardinality({i \in 1..Len(hist[r]) : hist[r][i].ev = ev /\ hist[r][i].op = op})

\* C14: every "query" call that acquired a connection issues ROLLBACK exactly
\* once, whether BEGIN failed, the sql failed or it succeeded; and nothing is
\* retried: in one request the connection is asked for once, and the catalog
\* query, BEGIN, the sql and ROLLBACK are each issued at most once, also
\* after a failure.
C14_RollbackOnceNoRetry ==
  \A r \in Reqs :
    /\ IsDone(r, "call") /\ Has(r, "ok", "connect") => Times(r, "issue", "ROLLBACK") = 1
    /\ Times(r, "ok", "connect") + Times(r, "fail", "connect") <= 1
    /\ \A op \in DbOps : /\ Times(r, "issue", op) <= 1
                        /\ Times(r, "ok", op) + Times(r, "fail", op) <= 1
    /\ ~Has(r, "ok", "connect") => \A op \in DbOps : Times(r, "issue", op) = 0

\* C14 witness: a "query" call whose BEGIN failed has answered, with one
\* ROLLBACK issued and no sql sent.
C14_Witness ==
  \E r \in Reqs :
    /\ IsDone(r, "call")
    /\ Has(r, "fail", "BEGIN")
    /\ Times(r, "issue", "ROLLBACK") = 1
    /\ Times(r, "issue", "SQL") = 0

\* The requests the checks refuse, stated on the request itself: a URI that
\* is no URL, a last segment other than the marker, a missing or empty schema
\* segment, a schema outside the allowed list; a tool name other than "query",
\* arguments without a sql string.
Refused(q) ==
  \/ /\ q.kind = "read"
     /\ LET url == URLAbsolute(q.arg.uri)
        IN  \/ ~url.ok
            \/ SchemaPathOf(url) # SCHEMA_PATH
            \/ DbSchemaOf(url) \in {Undefined, <<>>}
            \/ ~Includes(schemas, DbSchemaOf(url))
  \/ /\ q.kind = "call"
     /\ \/ q.arg.name # "query"
        \/ ~q.arg.arguments.present
        \/ q.arg.arguments.sql.type # "string"

\* C15: validation precedes acquisition: a request the checks refuse is
\* answered with an error in the step that receives it, and that step leaves
\* the pool (idle and leased clients, waiting requests), the clients' queues
\* and the database as they were; the request never acquires a client and
\* never issues a statement afterwards.
C15_ValidationFirst ==
  [][\A r \in Reqs :
       /\ req[r].pc = "idle" /\ req'[r].pc # "idle" /\ Refused(req'[r]) =>
            /\ req'[r].pc = "done" /\ ~req'[r].resp.ok
            /\ UNCHANGED <<conn, waiting, hist, rowCount>>
       /\ req[r].pc = "done" /\ Refused(req[r]) =>
            /\ req'[r] = req[r]
            /\ hist'[r] = <<>>
            /\ \A i \in 1..Len(waiting') : waiting'[i] # r
            /\ \A c \in Conns : conn'[c].owner # r]_vars

\* C15 witness: a request was refused for its schema while another request
\* held the only client, and the pool is as it was.
C15_Witness ==
  \E r \in Reqs, c \in Conns :
    /\ IsDone(r, "read")
    /\ req[r].resp.error = NotAllowedMsg
    /\ hist[r] = <<>>
    /\ conn[c].state = "leased"
    /\ conn[c].owner # r

\* Nothing is in flight: every request received has its response, nobody
\* waits for a client, no client is leased or has a query pending.
Quiescent ==
  /\ \A r \in Reqs : req[r].pc \in {"idle", "done"}
  /\ waiting = <<>>
  /\ \A c \in Conns : conn[c].state # "leased" /\ conn[c].queue = <<>>

\* C16: no connection leak and no starvation: when every database operation
\* eventually completes, every request received eventually has its response
\* (in particular one that waits for a client is not blocked for ever by
\* requests that have finished), and eventually all clients are back in the
\* pool with nothing pending.
C16_NoLeakNoStarvation == <>[]Quiescent

\* C16 witness: all requests were sent, each of them had the client and gave
\* it back, and nothing is in flight.
C16_Witness ==
  /\ budget = 0
  /\ Quiescent
  /\ \A r \in Reqs : Has(r, "ok", "connect") /\ Has(r, "release", "-")

====
